---------------------------- MODULE Spec2Model ----------------------------
(***************************************************************************)
(* Model of the record compaction store of src/app.py: the record codec    *)
(* (compress_transaction / decompress_transaction), the compaction policy  *)
(* (optimize_data_storage, cleanup_old_data) and the four archive          *)
(* operations served over HTTP (get_history, save_history,                 *)
(* overwrite_history, cleanup_history) on the file HISTORY_FILE.           *)
(*                                                                         *)
(* Values.  A Python leaf value is an option: <<v>> is the value v and     *)
(* <<>> is None (JSON null).  A dict is a function on its keys, a list a   *)
(* sequence; the empty dict and the empty list are both <<>>.  A JSON       *)
(* value found where the code expects a dict and that is none (a string,   *)
(* a number, null) is JsonString(s): it has no method get.                 *)
(*                                                                         *)
(* Time.  The clock and every ts are counted in days, so the cutoff        *)
(* int((now - timedelta(days)).timestamp() * 1000) is now - DAYS_TO_KEEP.  *)
(* MAX_RECORDS and DAYS_TO_KEEP are the program's constants scaled down    *)
(* (150000 and 14 in the source) so that both limits are exceeded by       *)
(* small inputs.                                                           *)
(***************************************************************************)
EXTENDS Integers, Sequences, FiniteSets, TLC

VARIABLES
    file,       \* the content of HISTORY_FILE on disk
    now,        \* the wall clock, datetime.now(), in days
    served,     \* the request just answered: what it read, computed and wrote
    threads,    \* the requests in flight, each at its position in a handler
    call        \* a call of optimize_data_storage: its argument and its result

vars == <<file, now, served, threads, call>>

---------------------------------------------------------------------------
(* Program constants (scaled) and the bounds of the model.                 *)

MAX_RECORDS == 2
DAYS_TO_KEEP == 2

MaxLen == 2      \* longest request body, in records
MaxTs == 1       \* timestamps of submitted records range over 0..MaxTs
MaxNow == 3      \* the clock runs from DAYS_TO_KEEP to MaxNow
MaxCall == 4     \* longest argument of a direct call of optimize_data_storage
MaxConcLen == 1  \* longest request body when requests overlap

---------------------------------------------------------------------------
(* Python values.                                                          *)

None == << >>
EmptyDict == << >>
Some(v) == <<v>>
Val(o) == o[1]

\* dict.get(k, default): the stored value (which may be None) or the default.
Get(d, k, default) == IF k \in DOMAIN d THEN d[k] ELSE default

\* Truth value of a container: a non-empty dict or list.
Truthy(v) == DOMAIN v # {}

\* A value that is not a dict, where the code calls .get on what it finds.
JsonString(s) == [str |-> s]

\* v has the method get.
IsDict(v) == "str" \notin DOMAIN v

---------------------------------------------------------------------------
(* Record codec.                                                           *)

\* compress_transaction raises AttributeError: one of its chained .get calls
\* meets a value that is not a dict (tx itself, item, seller, or a non-empty
\* enchants or the enchantments inside it).
CompressRaises(tx) ==
    \/ ~IsDict(tx)
    \/ ~IsDict(Get(tx, "item", EmptyDict))
    \/ ~IsDict(Get(tx, "seller", EmptyDict))
    \/ LET enchants == Get(Get(tx, "item", EmptyDict), "enchants", EmptyDict)
       IN  /\ Truthy(enchants)
           /\ \/ ~IsDict(enchants)
              \/ ~IsDict(Get(enchants, "enchantments", EmptyDict))

\* compress_transaction looking for the trim in the item, not in its enchants.
CompressTransactionTrimFromItem(tx) ==
    LET item     == Get(tx, "item", EmptyDict)
        enchants == Get(item, "enchants", EmptyDict)
        levels   == Get(Get(enchants, "enchantments", EmptyDict), "levels", None)
        trim     == Get(item, "trim", None)
        contents == Get(item, "contents", None)
    IN  [ ts |-> Get(tx, "unixMillisDateSold", None),
          p  |-> Get(tx, "price", None),
          i  |-> [ id |-> Get(item, "id", None),
                   c  |-> Get(item, "count", Some(1)) ]
                 @@ (IF Truthy(enchants) /\ Truthy(levels)
                        THEN [e |-> levels] ELSE EmptyDict)
                 @@ (IF Truthy(trim)
                        THEN [t |-> trim] ELSE EmptyDict)
                 @@ (IF Truthy(contents)
                        THEN [cont |-> contents] ELSE EmptyDict),
          s  |-> Get(Get(tx, "seller", EmptyDict), "name", None) ]

CompressTransaction(tx) ==
    LET item     == Get(tx, "item", EmptyDict)
        enchants == Get(item, "enchants", EmptyDict)
        levels   == Get(Get(enchants, "enchantments", EmptyDict), "levels", None)
        trim     == Get(enchants, "trim", None)
        contents == Get(item, "contents", None)
    IN  [ ts |-> Get(tx, "unixMillisDateSold", None),
          p  |-> Get(tx, "price", None),
          i  |-> [ id |-> Get(item, "id", None),
                   c  |-> Get(item, "count", Some(1)) ]
                 @@ (IF Truthy(enchants) /\ Truthy(levels)
                        THEN [e |-> levels] ELSE EmptyDict)
                 @@ (IF Truthy(enchants) /\ Truthy(trim)
                        THEN [t |-> trim] ELSE EmptyDict)
                 @@ (IF Truthy(contents)
                        THEN [cont |-> contents] ELSE EmptyDict),
          s  |-> Get(Get(tx, "seller", EmptyDict), "name", None) ]

DecompressTransaction(compressed_tx) ==
    LET i == Get(compressed_tx, "i", EmptyDict)
    IN  [ unixMillisDateSold |-> Get(compressed_tx, "ts", None),
          price |-> Get(compressed_tx, "p", None),
          item  |-> [ id       |-> Get(i, "id", None),
                      count    |-> Get(i, "c", Some(1)),
                      enchants |-> IF Truthy(Get(i, "e", None)) \/ Truthy(Get(i, "t", None))
                                      THEN [ enchantments |-> [levels |-> Get(i, "e", EmptyDict)],
                                             trim |-> Get(i, "t", None) ]
                                      ELSE EmptyDict,
                      contents |-> Get(i, "cont", << >>) ],
          seller |-> [name |-> Get(compressed_tx, "s", None)] ]

\* [compress_transaction(tx) for tx in new_records]
RECURSIVE CompressAll(_)
CompressAll(new_records) ==
    IF new_records = << >> THEN << >>
    ELSE <<CompressTransaction(Head(new_records))>> \o CompressAll(Tail(new_records))

\* The list comprehension over new_records raises AttributeError.
CompressAllRaises(new_records) ==
    \E k \in 1..Len(new_records) : CompressRaises(new_records[k])

\* The comprehension over reversed(compressed_data): newest first.
RECURSIVE DecompressAllReversed(_)
DecompressAllReversed(compressed_data) ==
    IF compressed_data = << >> THEN << >>
    ELSE Append(DecompressAllReversed(Tail(compressed_data)),
                DecompressTransaction(Head(compressed_data)))

\* [decompress_transaction(tx) for tx in compressed_data]
RECURSIVE DecompressAll(_)
DecompressAll(compressed_data) ==
    IF compressed_data = << >> THEN << >>
    ELSE <<DecompressTransaction(Head(compressed_data))>>
         \o DecompressAll(Tail(compressed_data))

---------------------------------------------------------------------------
(* Compaction policy.                                                      *)

\* cutoff_time of cleanup_old_data, at clock t
CutoffTime(t) == t - DAYS_TO_KEEP

\* The comparison with > for >=: a record exactly at the cutoff is dropped.
IsRecentStrictly(r, t) == Val(Get(r, "ts", Some(0))) > CutoffTime(t)

\* r.get('ts', 0) >= cutoff_time
IsRecent(r, t) == Val(Get(r, "ts", Some(0))) >= CutoffTime(t)

\* The comparison None >= int raises TypeError.
CleanupRaises(records) ==
    /\ records # << >>
    /\ \E k \in 1..Len(records) : Get(records[k], "ts", Some(0)) = None

\* The age filter left out.
CleanupOldDataKeepsAll(records, t) == records

CleanupOldData(records, t) ==
    IF records = << >> THEN records
    ELSE SelectSeq(records, LAMBDA r : IsRecent(r, t))

\* The deduplication key of optimize_data_storage.
Key(record) ==
    << Get(record, "ts", None),
       Get(record, "p", None),
       Get(Get(record, "i", EmptyDict), "id", None),
       Get(record, "s", None) >>

\* The loop without its test of seen: every record is kept.
UniqueFromKeepsAll(records, seen, unique_records) == unique_records \o records

\* The loop keeping the last record of each key instead of the first.
RECURSIVE UniqueFromKeepsLast(_, _, _)
UniqueFromKeepsLast(records, seen, unique_records) ==
    IF records = << >> THEN unique_records
    ELSE LET record == Head(records)
             rest   == Tail(records)
         IN  IF \E k \in 1..Len(rest) : Key(rest[k]) = Key(record)
                THEN UniqueFromKeepsLast(rest, seen, unique_records)
                ELSE UniqueFromKeepsLast(rest, seen, Append(unique_records, record))

\* The loop over records: the first record of each key is kept, in order.
RECURSIVE UniqueFrom(_, _, _)
UniqueFrom(records, seen, unique_records) ==
    IF records = << >> THEN unique_records
    ELSE LET record == Head(records)
         IN  IF Key(record) \in seen
                THEN UniqueFrom(Tail(records), seen, unique_records)
                ELSE UniqueFrom(Tail(records), seen \cup {Key(record)},
                                Append(unique_records, record))

UniqueRecords(records) == UniqueFrom(records, {}, << >>)

\* The sort key, lambda x: x.get('ts', 0)
SortKey(x) == Get(x, "ts", Some(0))

\* list.sort compares every element of a list of two or more with another:
\* a None key among them raises TypeError.
SortRaises(records) ==
    /\ Len(records) >= 2
    /\ \E k \in 1..Len(records) : SortKey(records[k]) = None

\* The sort left out: the records stay in first-seen order.
InsertUnsorted(sorted, r) == Append(sorted, r)

\* r goes after every element whose key is not greater: the sort is stable.
RECURSIVE InsertByTs(_, _)
InsertByTs(sorted, r) ==
    IF sorted = << >> THEN <<r>>
    ELSE IF Val(SortKey(sorted[Len(sorted)])) <= Val(SortKey(r))
         THEN Append(sorted, r)
         ELSE Append(InsertByTs(SubSeq(sorted, 1, Len(sorted) - 1), r),
                     sorted[Len(sorted)])

RECURSIVE SortFrom(_, _)
SortFrom(records, sorted) ==
    IF records = << >> THEN sorted
    ELSE SortFrom(Tail(records), InsertByTs(sorted, Head(records)))

SortByTs(records) == SortFrom(records, << >>)

\* unique_records[:MAX_RECORDS]: the oldest are kept.
CapRecordsKeepsOldest(records) ==
    IF Len(records) > MAX_RECORDS THEN SubSeq(records, 1, MAX_RECORDS) ELSE records

\* The slice one too long.
CapRecordsOffByOne(records) ==
    IF Len(records) > MAX_RECORDS
       THEN SubSeq(records, Len(records) - MAX_RECORDS, Len(records))
       ELSE records

\* unique_records[-MAX_RECORDS:] when the limit is exceeded
CapRecords(records) ==
    IF Len(records) > MAX_RECORDS
       THEN SubSeq(records, Len(records) - MAX_RECORDS + 1, Len(records))
       ELSE records

\* optimize_data_storage at clock t: whether it raises TypeError, and what it
\* returns otherwise.
OptimizeDataStorage(records, t) ==
    IF records = << >> THEN [raised |-> FALSE, out |-> << >>]
    ELSE LET unique == UniqueRecords(records)
         IN  IF SortRaises(unique) THEN [raised |-> TRUE, out |-> << >>]
             ELSE LET capped == CapRecords(SortByTs(unique))
                  IN  IF CleanupRaises(capped) THEN [raised |-> TRUE, out |-> << >>]
                      ELSE [raised |-> FALSE, out |-> CleanupOldData(capped, t)]

---------------------------------------------------------------------------
(* The archive file and the request bodies.                                *)

\* HISTORY_FILE does not exist
ArchiveAbsent == [kind |-> "absent", recs |-> << >>]
\* HISTORY_FILE holds the JSON list recs
Archive(recs) == [kind |-> "list", recs |-> recs]
\* HISTORY_FILE was truncated by open(.., 'w') and holds the records dumped
\* so far, without the closing bracket: not parsable
Partial(recs) == [kind |-> "partial", recs |-> recs]

\* HISTORY_FILE holds the bytes of two overlapping dumps, the shorter over
\* the longer: not parsable
Garbled == [kind |-> "garbled", recs |-> << >>]

\* os.path.exists(HISTORY_FILE)
Exists(f) == f.kind # "absent"
\* json.load(f) raises JSONDecodeError
LoadRaises(f) == f.kind \in {"partial", "garbled"}

\* A sale record as the upstream API gives it.  A count of 1 is left out, so
\* that compress_transaction supplies its default.
Tx(ts, p, c) ==
    [ unixMillisDateSold |-> Some(ts),
      price  |-> Some(p),
      item   |-> IF c = 1 THEN [id |-> Some("dirt")]
                          ELSE [id |-> Some("dirt"), count |-> Some(c)],
      seller |-> [name |-> Some("bob")] ]

\* A record without its timestamp: compress_transaction gives it ts None.
TxNoTs ==
    [ price |-> Some(1), item |-> [id |-> Some("dirt")], seller |-> [name |-> Some("bob")] ]

\* <<price, count>> of the submitted records: one sale, the same sale with
\* another count (same identity key), and another sale at the same time.
Variants == {<<1, 1>>, <<1, 2>>, <<2, 1>>}

\* An element of the body that is not a record: a JSON string.
NotARecord == JsonString("junk")

TxSet == {Tx(ts, v[1], v[2]) : ts \in 0..MaxTs, v \in Variants} \cup {TxNoTs, NotARecord}

SeqsUpTo(S, n) == UNION {[1..k -> S] : k \in 0..n}

\* request.get_json(): a list of records, or something that is not a list
Bodies ==
    {[isList |-> FALSE, recs |-> << >>]}
    \cup {[isList |-> TRUE, recs |-> s] : s \in SeqsUpTo(TxSet, MaxLen)}

---------------------------------------------------------------------------
(* The handlers, each as the function from the file it finds, its request  *)
(* body and the clock to the file it leaves and the response it returns.   *)
(* status is the HTTP status; records is what was passed to                *)
(* optimize_data_storage; counts tells whether the response carries        *)
(* record counts; total is total_records (save, overwrite) or              *)
(* cleaned_records (cleanup); original and removed are cleanup's           *)
(* original_records and removed; data is the list get_history returns.     *)

Response(f, status, records, counts, total, original, data) ==
    [ file |-> f, status |-> status, records |-> records, counts |-> counts,
      total |-> total, original |-> original, removed |-> original - total,
      data |-> data ]

\* GET /history
GetHistoryResult(f) ==
    IF ~Exists(f) THEN Response(f, 200, << >>, FALSE, 0, 0, << >>)
    ELSE IF LoadRaises(f) THEN Response(f, 500, << >>, FALSE, 0, 0, << >>)
    ELSE Response(f, 200, << >>, FALSE, 0, 0, DecompressAll(f.recs))

\* The load left out: the existing archive is not read.
LoadForSaveSkipsFile(f) == << >>

\* all_records of save_history after the load: a missing or unparsable file
\* is read as the empty list
LoadForSave(f) == IF Exists(f) /\ ~LoadRaises(f) THEN f.recs ELSE << >>

\* save_history putting the new records before those of the archive.
SaveHistoryNewFirst(f, body, t) ==
    IF ~body.isList THEN Response(f, 400, << >>, FALSE, 0, 0, << >>)
    ELSE IF CompressAllRaises(body.recs)
         THEN Response(f, 500, << >>, FALSE, 0, 0, << >>)
    ELSE LET all_records == CompressAll(body.recs) \o LoadForSave(f)
             optimized   == OptimizeDataStorage(all_records, t)
         IN  IF optimized.raised
                THEN Response(f, 500, all_records, FALSE, 0, 0, << >>)
                ELSE Response(Archive(optimized.out), 200, all_records, TRUE,
                              Len(optimized.out), 0, << >>)

\* POST /history.  An AttributeError of compress_transaction is not caught by
\* the handler: Flask answers 500.
SaveHistoryResult(f, body, t) ==
    IF ~body.isList THEN Response(f, 400, << >>, FALSE, 0, 0, << >>)
    ELSE IF CompressAllRaises(body.recs)
         THEN Response(f, 500, << >>, FALSE, 0, 0, << >>)
    ELSE LET all_records == LoadForSave(f) \o CompressAll(body.recs)
             optimized   == OptimizeDataStorage(all_records, t)
         IN  IF optimized.raised
                THEN Response(f, 500, all_records, FALSE, 0, 0, << >>)
                ELSE Response(Archive(optimized.out), 200, all_records, TRUE,
                              Len(optimized.out), 0, << >>)

\* overwrite_history merging with the existing archive, as save_history does.
OverwriteHistoryMerges(f, body, t) == SaveHistoryResult(f, body, t)

\* POST /history/overwrite.  An AttributeError of compress_transaction is not
\* caught by the handler: Flask answers 500.
OverwriteHistoryResult(f, body, t) ==
    IF ~body.isList THEN Response(f, 400, << >>, FALSE, 0, 0, << >>)
    ELSE IF CompressAllRaises(body.recs)
         THEN Response(f, 500, << >>, FALSE, 0, 0, << >>)
    ELSE LET compressed_records == CompressAll(body.recs)
             optimized          == OptimizeDataStorage(compressed_records, t)
         IN  IF optimized.raised
                THEN Response(f, 500, compressed_records, FALSE, 0, 0, << >>)
                ELSE Response(Archive(optimized.out), 200, compressed_records, TRUE,
                              Len(optimized.out), 0, << >>)

\* cleanup_history reporting its counts without writing the file back.
CleanupHistoryWritesNothing(f, t) ==
    IF ~Exists(f) THEN Response(f, 200, << >>, FALSE, 0, 0, << >>)
    ELSE IF LoadRaises(f) THEN Response(f, 500, << >>, FALSE, 0, 0, << >>)
    ELSE LET optimized == OptimizeDataStorage(f.recs, t)
         IN  Response(f, 200, f.recs, TRUE, Len(optimized.out), Len(f.recs), << >>)

\* cleanup_history reading an unparsable file as the empty list, as
\* save_history does.
CleanupHistoryHeals(f, t) ==
    IF ~Exists(f) THEN Response(f, 200, << >>, FALSE, 0, 0, << >>)
    ELSE LET records   == LoadForSave(f)
             optimized == OptimizeDataStorage(records, t)
         IN  IF optimized.raised
                THEN Response(f, 500, records, FALSE, 0, 0, << >>)
                ELSE Response(Archive(optimized.out), 200, records, TRUE,
                              Len(optimized.out), Len(records), << >>)

\* POST /history/cleanup.  A TypeError of optimize_data_storage is not caught
\* by the handler: Flask answers 500.
CleanupHistoryResult(f, t) ==
    IF ~Exists(f) THEN Response(f, 200, << >>, FALSE, 0, 0, << >>)
    ELSE IF LoadRaises(f) THEN Response(f, 500, << >>, FALSE, 0, 0, << >>)
    ELSE LET optimized == OptimizeDataStorage(f.recs, t)
         IN  IF optimized.raised
                THEN Response(f, 500, f.recs, FALSE, 0, 0, << >>)
                ELSE Response(Archive(optimized.out), 200, f.recs, TRUE,
                              Len(optimized.out), Len(f.recs), << >>)

---------------------------------------------------------------------------
(* The store serving one request at a time: a handler runs from its first  *)
(* line to its return, then its response is delivered.                     *)

NoBody == [isList |-> TRUE, recs |-> << >>]

\* The record of an answered request: the operation, the clock it ran at,
\* its body, the file it found and its response.
Served(op, body, r) ==
    [ op |-> op, at |-> now, body |-> body, before |-> file, status |-> r.status,
      records |-> r.records, counts |-> r.counts, total |-> r.total,
      original |-> r.original, removed |-> r.removed, data |-> r.data ]

NotServing ==
    [ op |-> "none", at |-> 0, body |-> NoBody, before |-> ArchiveAbsent,
      status |-> 0, records |-> << >>, counts |-> FALSE, total |-> 0,
      original |-> 0, removed |-> 0, data |-> << >> ]

Idle == [pc |-> "idle"]
ThreadIds == {1, 2}

NoCall == [pc |-> "none", records |-> << >>, at |-> 0, raised |-> FALSE, out |-> << >>]

Init ==
    /\ file = ArchiveAbsent
    /\ now = DAYS_TO_KEEP
    /\ served = NotServing
    /\ threads = [t \in ThreadIds |-> Idle]
    /\ call = NoCall

GetHistory ==
    /\ served = NotServing
    /\ LET r == GetHistoryResult(file)
       IN  /\ file' = r.file
           /\ served' = Served("get", NoBody, r)
    /\ UNCHANGED <<now, threads, call>>

SaveHistory ==
    /\ served = NotServing
    /\ \E body \in Bodies :
        LET r == SaveHistoryResult(file, body, now)
        IN  /\ file' = r.file
            /\ served' = Served("save", body, r)
    /\ UNCHANGED <<now, threads, call>>

OverwriteHistory ==
    /\ served = NotServing
    /\ \E body \in Bodies :
        LET r == OverwriteHistoryResult(file, body, now)
        IN  /\ file' = r.file
            /\ served' = Served("overwrite", body, r)
    /\ UNCHANGED <<now, threads, call>>

CleanupHistory ==
    /\ served = NotServing
    /\ LET r == CleanupHistoryResult(file, now)
       IN  /\ file' = r.file
           /\ served' = Served("cleanup", NoBody, r)
    /\ UNCHANGED <<now, threads, call>>

\* The response leaves the server, which is ready for the next request.
Deliver ==
    /\ served # NotServing
    /\ served' = NotServing
    /\ UNCHANGED <<file, now, threads, call>>

\* Time passes.
Tick ==
    /\ now < MaxNow
    /\ now' = now + 1
    /\ UNCHANGED <<file, served, threads, call>>

Next ==
    \/ GetHistory
    \/ SaveHistory
    \/ OverwriteHistory
    \/ CleanupHistory
    \/ Deliver
    \/ Tick

Spec == Init /\ [][Next]_vars

---------------------------------------------------------------------------
(* optimize_data_storage called on its own, on any list of compact records *)
(* at any time of the clock.                                               *)

\* A record with nothing but its timestamp: compress_transaction gives it
\* price, item id and seller None.
TxOnlyTs == [unixMillisDateSold |-> Some(0)]

CompactSet == {CompressTransaction(tx) : tx \in (TxSet \ {NotARecord}) \cup {TxOnlyTs}}

PolicyInit ==
    /\ file = ArchiveAbsent
    /\ served = NotServing
    /\ threads = [t \in ThreadIds |-> Idle]
    /\ now \in DAYS_TO_KEEP..MaxNow
    /\ \E records \in SeqsUpTo(CompactSet, MaxCall) :
          call = [ pc |-> "called", records |-> records, at |-> now,
                   raised |-> FALSE, out |-> << >> ]

Optimize ==
    /\ call.pc = "called"
    /\ LET optimized == OptimizeDataStorage(call.records, now)
       IN  call' = [ call EXCEPT !.pc = "returned",
                                 !.raised = optimized.raised,
                                 !.out = optimized.out ]
    /\ UNCHANGED <<file, now, served, threads>>

PolicyNext == Optimize

SpecPolicy == PolicyInit /\ [][PolicyNext]_vars

---------------------------------------------------------------------------
(* compress_transaction and decompress_transaction called on their own, on *)
(* a record as the upstream API gives it: the item with or without its     *)
(* count, its enchants (absent, empty, with or without levels and trim)    *)
(* and its contents.                                                       *)

Levels == [sharpness |-> Some(3)]
Trim == [material |-> Some("gold"), pattern |-> Some("eye")]
Stack == [id |-> Some("dirt"), count |-> Some(3)]

CountFields == {<< >>, [count |-> Some(1)], [count |-> Some(3)]}

EnchantsFields ==
    { << >>,
      [enchants |-> EmptyDict],
      [enchants |-> [enchantments |-> [levels |-> EmptyDict]]],
      [enchants |-> [enchantments |-> [levels |-> Levels]]],
      [enchants |-> [trim |-> Trim]],
      [enchants |-> [enchantments |-> [levels |-> EmptyDict], trim |-> None]],
      [enchants |-> [enchantments |-> [levels |-> EmptyDict], trim |-> Trim]],
      [enchants |-> [enchantments |-> [levels |-> Levels], trim |-> None]],
      [enchants |-> [enchantments |-> [levels |-> Levels], trim |-> Trim]] }

ContentsFields == {<< >>, [contents |-> << >>], [contents |-> <<Stack>>]}

CanonicalTx(ts, count, enchants, contents) ==
    [ unixMillisDateSold |-> Some(ts),
      price  |-> Some(2),
      item   |-> [id |-> Some("bow")] @@ count @@ enchants @@ contents,
      seller |-> [name |-> Some("bob")] ]

CanonicalSet ==
    { CanonicalTx(ts, count, enchants, contents) :
        ts \in 0..MaxTs, count \in CountFields,
        enchants \in EnchantsFields, contents \in ContentsFields }

\* Records that are not as the API gives them: a string for the record, for
\* its item, for its enchants.
MalformedSet ==
    { NotARecord,
      [unixMillisDateSold |-> Some(0), item |-> JsonString("bow")],
      [unixMillisDateSold |-> Some(0), item |-> [enchants |-> JsonString("sharp")]] }

CodecInit ==
    /\ file = ArchiveAbsent
    /\ now = DAYS_TO_KEEP
    /\ served = NotServing
    /\ threads = [t \in ThreadIds |-> Idle]
    /\ \E tx \in CanonicalSet \cup MalformedSet :
          call = [pc |-> "given", tx |-> tx, compressed |-> << >>, decompressed |-> << >>]

Compress ==
    /\ call.pc = "given"
    /\ call' = IF CompressRaises(call.tx)
                  THEN [call EXCEPT !.pc = "raised"]
                  ELSE [call EXCEPT !.pc = "compressed",
                                    !.compressed = CompressTransaction(call.tx)]
    /\ UNCHANGED <<file, now, served, threads>>

Decompress ==
    /\ call.pc = "compressed"
    /\ call' = [call EXCEPT !.pc = "decompressed",
                            !.decompressed = DecompressTransaction(call.compressed)]
    /\ UNCHANGED <<file, now, served, threads>>

CodecNext ==
    \/ Compress
    \/ Decompress

SpecCodec == CodecInit /\ [][CodecNext]_vars

---------------------------------------------------------------------------
(* The store serving overlapping requests: app.run serves each request on  *)
(* a thread of its own, and the handlers take no lock.  A handler touches  *)
(* the file when it loads it (os.path.exists, open, json.load), when it    *)
(* opens it for writing (open(.., 'w'), which truncates it) and when its   *)
(* dump reaches the file (json.dump, then the close of the with block);    *)
(* what it computes in between is its own.  A dump longer than the write   *)
(* buffer reaches the file in several writes, which leave it unparsable    *)
(* until the last: Partial stands for all of these.                        *)

\* The records submitted while requests overlap: one sale per timestamp.
ConcTxSet == {Tx(ts, 1, 1) : ts \in 0..MaxTs}

ConcBodies ==
    {[isList |-> FALSE, recs |-> << >>]}
    \cup {[isList |-> TRUE, recs |-> s] : s \in SeqsUpTo(ConcTxSet, MaxConcLen)}

\* A thread inside a handler: the request, the clock and the file it has
\* read, and the response r it is about to give with the file r.file it is
\* about to write.
Running(pc, op, body, r) ==
    [pc |-> pc, op |-> op, body |-> body, at |-> now, before |-> file, r |-> r]

\* A handler up to its open(.., 'w'), or up to its return when it writes
\* nothing.
Begin(t, op, body, r) ==
    /\ threads[t] = Idle
    /\ threads' = [threads EXCEPT
                      ![t] = Running(IF r.counts THEN "open" ELSE "returned", op, body, r)]
    /\ UNCHANGED <<file, now, served, call>>

\* get_history: it only reads.
ConcGetHistory(t) == Begin(t, "get", NoBody, GetHistoryResult(file))

\* save_history from its first line to its open(.., 'w')
ConcSaveHistory(t) ==
    \E body \in ConcBodies : Begin(t, "save", body, SaveHistoryResult(file, body, now))

\* overwrite_history from its first line to its open(.., 'w')
ConcOverwriteHistory(t) ==
    \E body \in ConcBodies :
        Begin(t, "overwrite", body, OverwriteHistoryResult(file, body, now))

\* cleanup_history from its first line to its second open
ConcCleanupHistory(t) == Begin(t, "cleanup", NoBody, CleanupHistoryResult(file, now))

\* open(HISTORY_FILE, 'w'): the file is created or truncated to nothing.
OpenForWrite(t) ==
    /\ threads[t].pc = "open"
    /\ file' = Partial(<< >>)
    /\ threads' = [threads EXCEPT ![t].pc = "dump"]
    /\ UNCHANGED <<now, served, call>>

\* What the file holds once a dump of recs has reached it from offset 0.  A
\* file still empty takes the dump as it is.  A file another thread has
\* written since this one truncated it keeps its tail when it is longer
\* than the dump: the result depends on the two lengths in bytes.
AfterDump(f, recs) ==
    IF f = Partial(<< >>) \/ f = Archive(<< >>) THEN {Archive(recs)}
    ELSE IF recs = << >> THEN {Garbled}
    ELSE {Archive(recs), Garbled}

\* json.dump and the close of the file, up to the handler's return.
DumpAndClose(t) ==
    /\ threads[t].pc = "dump"
    /\ \E f \in AfterDump(file, threads[t].r.file.recs) : file' = f
    /\ threads' = [threads EXCEPT ![t].pc = "returned"]
    /\ UNCHANGED <<now, served, call>>

\* The response leaves the thread, which is free for another request.
Return(t) ==
    /\ threads[t].pc = "returned"
    /\ threads' = [threads EXCEPT ![t] = Idle]
    /\ UNCHANGED <<file, now, served, call>>

\* The requests overlap within one day of the clock.
ConcNext ==
    \E t \in ThreadIds :
        \/ ConcGetHistory(t)
        \/ ConcSaveHistory(t)
        \/ ConcOverwriteHistory(t)
        \/ ConcCleanupHistory(t)
        \/ OpenForWrite(t)
        \/ DumpAndClose(t)
        \/ Return(t)

SpecConc == Init /\ [][ConcNext]_vars

---------------------------------------------------------------------------
(* Properties.  They read the file, the answered request, the threads and  *)
(* the calls of the policy and of the codec, and state what they require   *)
(* in their own terms wherever the claim does not name the policy itself.  *)

Range(seq) == {seq[k] : k \in 1..Len(seq)}
TsOf(r) == Val(r.ts)
HasTs(r) == r.ts # None

\* The identity key (ts, p, i.id, s) of the specification.
Identity(r) == <<r.ts, r.p, r.i.id, r.s>>

\* The positions of records whose identity key no earlier record has.
FirstSeen(records) ==
    {k \in 1..Len(records) : \A j \in 1..(k - 1) : Identity(records[j]) # Identity(records[k])}

\* The request just answered wrote the archive.
Wrote == served.op \in {"save", "overwrite", "cleanup"} /\ served.counts

\* Older than the retention window at clock t.
TooOld(r, t) == TsOf(r) < t - DAYS_TO_KEEP

\* C1: the persisted archive never holds two records with the same identity
\* key (ts, p, i.id, s), whatever writes produced it.
C1_NoDuplicateKeys ==
    file.kind = "list" =>
        \A j, k \in 1..Len(file.recs) :
            j # k => Identity(file.recs[j]) # Identity(file.recs[k])

\* An AppendMerge was given two records with one key, which a record of the
\* archive had too with another count, and wrote an archive.
C1_Witness ==
    /\ served.op = "save" /\ Wrote
    /\ Len(served.before.recs) >= 1 /\ Len(served.body.recs) = 2
    /\ \E j \in 1..Len(served.before.recs) :
          /\ Identity(served.records[j]) = Identity(served.records[Len(served.records)])
          /\ Identity(served.records[j]) = Identity(served.records[Len(served.records) - 1])
          /\ served.records[j] # served.records[Len(served.records)]
    /\ Len(file.recs) >= 1

\* C2: the persisted archive is sorted ascending by ts (and every record in
\* it has a ts to be sorted by).
C2_SortedByTs ==
    file.kind = "list" =>
        /\ \A k \in 1..Len(file.recs) : HasTs(file.recs[k])
        /\ \A j, k \in 1..Len(file.recs) :
              j < k => TsOf(file.recs[j]) <= TsOf(file.recs[k])

\* A write was given its records newest first and persisted two of them.
C2_Witness ==
    /\ Wrote
    /\ Len(file.recs) = 2
    /\ TsOf(file.recs[1]) < TsOf(file.recs[2])
    /\ \E j, k \in 1..Len(served.records) :
          /\ j < k
          /\ served.records[j] = file.recs[2]
          /\ served.records[k] = file.recs[1]

\* C3: the archive a write persists at clock `at` holds no record with
\* ts < at - DAYS_TO_KEEP.
C3_NoRecordPastRetention ==
    Wrote => \A k \in 1..Len(file.recs) :
                HasTs(file.recs[k]) /\ ~TooOld(file.recs[k], served.at)

\* An AppendMerge found a record past retention in the archive and another
\* in its body, and persisted a record.
C3_Witness ==
    /\ served.op = "save" /\ Wrote
    /\ \E r \in Range(served.before.recs) : TooOld(r, served.at)
    /\ \E k \in (Len(served.before.recs) + 1)..Len(served.records) :
          /\ HasTs(served.records[k])
          /\ TooOld(served.records[k], served.at)
    /\ Len(file.recs) >= 1

\* C4: the persisted archive holds at most MAX_RECORDS records, and when a
\* write met more than MAX_RECORDS distinct records, every one of them it
\* did not persist has a ts no greater than that of every record persisted.
C4_CapacityDropsOldest ==
    /\ file.kind = "list" => Len(file.recs) <= MAX_RECORDS
    /\ (Wrote /\ Cardinality(FirstSeen(served.records)) > MAX_RECORDS) =>
          \A d \in FirstSeen(served.records) :
              served.records[d] \notin Range(file.recs) =>
                  \A k \in 1..Len(file.recs) :
                      TsOf(served.records[d]) <= TsOf(file.recs[k])

\* A write met more than MAX_RECORDS distinct records, persisted MAX_RECORDS
\* and dropped one that was within the retention window and strictly older.
C4_Witness ==
    /\ Wrote
    /\ Cardinality(FirstSeen(served.records)) > MAX_RECORDS
    /\ Len(file.recs) = MAX_RECORDS
    /\ \E d \in FirstSeen(served.records) :
          /\ served.records[d] \notin Range(file.recs)
          /\ ~TooOld(served.records[d], served.at)
          /\ TsOf(served.records[d]) < TsOf(file.recs[1])

\* The records of out are among those of records, and every distinct record
\* of records that is not in out has a ts no greater than any in out.
NewestKept(records, out) ==
    /\ Range(out) \subseteq {records[d] : d \in FirstSeen(records)}
    /\ \A d \in FirstSeen(records) :
          records[d] \notin Range(out) =>
              \A k \in 1..Len(out) : TsOf(records[d]) <= TsOf(out[k])

\* The distinct records of a list that are within the retention window.
RecentDistinct(records, t) ==
    {d \in FirstSeen(records) : ~TooOld(records[d], t)}

\* C5 as stated: for any input longer than MAX_RECORDS (on which the policy
\* returns), the output has exactly MAX_RECORDS records, the newest by ts.
C5_AnyLongInputGivesMaxRecords ==
    (call.pc = "returned" /\ ~call.raised /\ Len(call.records) > MAX_RECORDS) =>
        /\ Len(call.out) = MAX_RECORDS
        /\ NewestKept(call.records, call.out)

\* C5 amended: for any input of records with a ts, of which more than
\* MAX_RECORDS are distinct and at least MAX_RECORDS distinct ones are within
\* the retention window, the policy returns exactly MAX_RECORDS records, the
\* newest of the distinct records by ts.
C5_LongRecentInputGivesMaxRecords ==
    ( /\ call.pc = "returned"
      /\ \A r \in Range(call.records) : HasTs(r)
      /\ Cardinality(FirstSeen(call.records)) > MAX_RECORDS
      /\ Cardinality(RecentDistinct(call.records, call.at)) >= MAX_RECORDS ) =>
        /\ ~call.raised
        /\ Len(call.out) = MAX_RECORDS
        /\ Cardinality(Range(call.out)) = MAX_RECORDS
        /\ NewestKept(call.records, call.out)

\* The policy returned MAX_RECORDS records of an input that held a
\* duplicate, a record past retention and MAX_RECORDS recent distinct ones.
C5_Witness ==
    /\ call.pc = "returned" /\ ~call.raised
    /\ Len(call.records) > Cardinality(FirstSeen(call.records))
    /\ Cardinality(FirstSeen(call.records)) > MAX_RECORDS
    /\ Cardinality(RecentDistinct(call.records, call.at)) = MAX_RECORDS
    /\ Len(call.out) = MAX_RECORDS

\* The pairs <<j, k>> of the claim: records[j] is the first record with its
\* identity key, records[k] a later one with that key and another count.
RecountedPairs(records) ==
    {pr \in FirstSeen(records) \X (1..Len(records)) :
        /\ pr[1] < pr[2]
        /\ Identity(records[pr[1]]) = Identity(records[pr[2]])
        /\ records[pr[1]].i.c # records[pr[2]].i.c}

\* The distinct records the sort puts after records[j]: a greater ts, or the
\* same ts and a later first appearance.
SortedAfter(records, j) ==
    {d \in FirstSeen(records) :
        \/ TsOf(records[d]) > TsOf(records[j])
        \/ TsOf(records[d]) = TsOf(records[j]) /\ d > j}

\* C6 as stated: of two input records with one identity key and differing
\* counts, the policy (when it returns) retains exactly one, the first.
C6_RetainsTheFirstOfTwo ==
    (call.pc = "returned" /\ ~call.raised) =>
        \A pr \in RecountedPairs(call.records) :
            /\ call.records[pr[1]] \in Range(call.out)
            /\ call.records[pr[2]] \notin Range(call.out)

\* C6 amended: of two input records with one identity key and differing
\* counts, in an input of records with a ts, the policy never retains the
\* later one nor two records with that key, and it retains the first one
\* exactly when that record is within the retention window and fewer than
\* MAX_RECORDS distinct records are sorted after it.
C6_RetainsOnlyTheFirstOfTwo ==
    (call.pc = "returned" /\ \A r \in Range(call.records) : HasTs(r)) =>
        /\ ~call.raised
        /\ \A pr \in RecountedPairs(call.records) :
              LET first == call.records[pr[1]]
                  later == call.records[pr[2]]
              IN  /\ later \notin Range(call.out)
                  /\ \A j, k \in 1..Len(call.out) :
                        (Identity(call.out[j]) = Identity(first)
                            /\ Identity(call.out[k]) = Identity(first)) => j = k
                  /\ first \in Range(call.out) <=>
                        /\ ~TooOld(first, call.at)
                        /\ Cardinality(SortedAfter(call.records, pr[1])) < MAX_RECORDS

\* The policy was given a recent record twice with differing counts, among
\* other records, and returned the first of the two.
C6_Witness ==
    /\ call.pc = "returned" /\ ~call.raised
    /\ Len(call.records) > 2
    /\ \E pr \in RecountedPairs(call.records) :
          /\ call.records[pr[1]] \in Range(call.out)
          /\ pr[1] > 1

\* What a Compact called now, on the present file, does.
SecondCompact == CleanupHistoryResult(file, now)

\* C7 as stated: after a Compact, a second Compact, whenever it comes, leaves
\* the archive as it is and reports after2 = after1 and removed2 = 0.
C7_SecondCompactChangesNothing ==
    (served.op = "cleanup" /\ Wrote) =>
        /\ SecondCompact.status = 200
        /\ SecondCompact.file = file
        /\ SecondCompact.total = served.total
        /\ SecondCompact.removed = 0

\* No record of the archive has left the retention window since the request
\* just answered ran.
NoneExpiredSince ==
    \A r \in Range(file.recs) : TooOld(r, now) => TooOld(r, served.at)

\* C7 amended: after a Compact, a second Compact that comes before any record
\* of the archive has left the retention window leaves the archive as it is
\* and reports after2 = after1 and removed2 = 0.
C7_SecondCompactInTimeChangesNothing ==
    (served.op = "cleanup" /\ Wrote /\ NoneExpiredSince) =>
        /\ SecondCompact.status = 200
        /\ SecondCompact.counts
        /\ SecondCompact.file = file
        /\ SecondCompact.total = served.total
        /\ SecondCompact.removed = 0

\* A Compact removed a record from the archive and kept another, which is
\* still within the retention window.
C7_Witness ==
    /\ served.op = "cleanup" /\ Wrote
    /\ served.removed > 0
    /\ served.total > 0
    /\ NoneExpiredSince

\* An AppendMerge of the empty list on a non-empty archive.
EmptyMerge ==
    /\ served.op = "save"
    /\ served.body = [isList |-> TRUE, recs |-> << >>]
    /\ served.before.kind = "list"
    /\ served.before.recs # << >>

\* C8 as stated: AppendMerge([]) on a non-empty archive reports as many
\* records as the archive held and leaves the archive unchanged.
C8_EmptyMergeChangesNothing ==
    EmptyMerge =>
        /\ served.status = 200
        /\ served.total = Len(served.before.recs)
        /\ file = served.before

\* C8 amended: AppendMerge([]) on a non-empty archive none of whose records
\* is older than now - DAYS_TO_KEEP at the call reports as many records as
\* the archive held and leaves the archive unchanged.
C8_EmptyMergeOfRecentChangesNothing ==
    (EmptyMerge /\ \A r \in Range(served.before.recs) : ~TooOld(r, served.at)) =>
        /\ served.status = 200
        /\ served.counts
        /\ served.total = Len(served.before.recs)
        /\ file = served.before

\* AppendMerge([]) met an archive of two records, written before the clock
\* moved, and both were still within the retention window.
C8_Witness ==
    /\ EmptyMerge
    /\ Len(served.before.recs) = 2
    /\ served.at > DAYS_TO_KEEP
    /\ \A r \in Range(served.before.recs) : ~TooOld(r, served.at)
    /\ served.status = 200

\* C9: an Overwrite that succeeds persists the policy's result on its encoded
\* input, reports its length, and keeps no record of the archive it found
\* that the input does not give; Overwrite([]) succeeds, reports 0 records
\* and leaves an archive that ReadAll returns as the empty list.
C9_OverwriteDiscardsArchive ==
    /\ (served.op = "overwrite" /\ Wrote) =>
          /\ file = Archive(OptimizeDataStorage(CompressAll(served.body.recs), served.at).out)
          /\ served.total = Len(file.recs)
          /\ Range(file.recs) \subseteq
                {CompressTransaction(tx) : tx \in Range(served.body.recs)}
    /\ (served.op = "overwrite" /\ served.body = [isList |-> TRUE, recs |-> << >>]) =>
          /\ served.status = 200 /\ served.counts
          /\ served.total = 0
          /\ file = Archive(<< >>)
          /\ GetHistoryResult(file).status = 200
          /\ GetHistoryResult(file).data = << >>

\* An Overwrite found an archive holding a recent record that its input did
\* not give, and persisted a non-empty archive without it.
C9_Witness ==
    /\ served.op = "overwrite" /\ Wrote
    /\ \E r \in Range(served.before.recs) :
          /\ ~TooOld(r, served.at)
          /\ Identity(r) \notin {Identity(CompressTransaction(tx)) : tx \in Range(served.body.recs)}
    /\ Len(served.before.recs) < MAX_RECORDS
    /\ Len(file.recs) >= 1

\* C10: a ReadAll, whatever writes are under way, finds the archive absent
\* (none was ever written) or complete as a write left it, never empty,
\* truncated or partly written, and answers with its records.
C10_ReadersSeeCompleteArchive ==
    \A t \in ThreadIds :
        (threads[t].pc = "returned" /\ threads[t].op = "get") =>
            /\ threads[t].before.kind \in {"absent", "list"}
            /\ threads[t].r.status = 200
            /\ threads[t].r.data = DecompressAll(threads[t].before.recs)

\* Both threads have answered an AppendMerge that succeeded.
BothMerged ==
    \A t \in ThreadIds :
        /\ threads[t].pc = "returned"
        /\ threads[t].op = "save"
        /\ threads[t].r.status = 200

\* C11: an operation has the archive to itself from its load to its persist:
\* the archive an AppendMerge or a Compact is about to replace is still the
\* one it loaded, and the file an operation has truncated is touched by no
\* other before its dump; so two AppendMerge calls that both found no
\* archive (neither ran after the other) leave the records of both.
C11_OperationsAreExclusive ==
    /\ \A t \in ThreadIds :
          /\ (threads[t].pc = "open" /\ threads[t].op \in {"save", "cleanup"}) =>
                file = threads[t].before
          /\ threads[t].pc = "dump" => file = Partial(<< >>)
    /\ (BothMerged /\ \A t \in ThreadIds : threads[t].before = ArchiveAbsent) =>
          /\ file.kind = "list"
          /\ \A t \in ThreadIds :
                Range(CompressAll(threads[t].body.recs)) \subseteq Range(file.recs)

\* The body is not a list, or holds a value that is not a record.
InvalidBody(body) ==
    \/ ~body.isList
    \/ \E k \in 1..Len(body.recs) : "str" \in DOMAIN body.recs[k]

\* C12: an AppendMerge or an Overwrite given a body that is not a list, or a
\* list holding a value that is not a record, answers InvalidInput (status
\* 400) and leaves the archive as it found it.
C12_InvalidInputIsRejected ==
    (served.op \in {"save", "overwrite"} /\ InvalidBody(served.body)) =>
        /\ served.status = 400
        /\ file = served.before

\* Thread t is in, or has answered, a ReadAll or a Compact that found the
\* file unparsable.
MetCorrupt(t) ==
    /\ threads[t].pc # "idle"
    /\ threads[t].op \in {"get", "cleanup"}
    /\ threads[t].before.kind \in {"partial", "garbled"}

\* C13: a ReadAll or a Compact that finds the file unparsable answers with
\* the error (status 500), returns no records and no counts, and goes to its
\* return without opening the file for writing.
C13_CorruptArchiveIsReported ==
    \A t \in ThreadIds :
        MetCorrupt(t) =>
            /\ threads[t].pc = "returned"
            /\ threads[t].r.status = 500
            /\ threads[t].r.data = << >>
            /\ ~threads[t].r.counts
            /\ threads[t].r.file = threads[t].before

\* With no write under way, a Compact and a ReadAll have both met the bytes
\* two overlapping dumps left, and the file still holds them.
C13_Witness ==
    /\ MetCorrupt(1) /\ threads[1].op = "cleanup"
    /\ MetCorrupt(2) /\ threads[2].op = "get"
    /\ threads[1].before = Garbled /\ threads[2].before = Garbled
    /\ file = Garbled

\* An AppendMerge of a list of records was answered, and it had found the
\* archive absent or unparsable.
MergedIntoNoArchive ==
    /\ served.op = "save"
    /\ ~InvalidBody(served.body)
    /\ served.before.kind # "list"

\* C14: an AppendMerge(x) that finds the archive absent or unparsable
\* succeeds and persists the policy's result on the encoded x alone, and a
\* ReadAll and a Compact that follow succeed.
C14_AppendMergeHeals ==
    MergedIntoNoArchive =>
        /\ served.status = 200
        /\ file = Archive(OptimizeDataStorage(CompressAll(served.body.recs), served.at).out)
        /\ GetHistoryResult(file).status = 200
        /\ CleanupHistoryResult(file, now).status = 200

\* The optional fields of a record as given: what it has under
\* item.enchants.enchantments.levels, item.enchants.trim and item.contents,
\* << >> when the field is absent or empty.
GivenEnchants(r) == IF "enchants" \in DOMAIN r.item THEN r.item.enchants ELSE << >>
GivenLevels(r) ==
    IF "enchantments" \in DOMAIN GivenEnchants(r)
       THEN GivenEnchants(r).enchantments.levels ELSE << >>
GivenTrim(r) == IF "trim" \in DOMAIN GivenEnchants(r) THEN GivenEnchants(r).trim ELSE << >>
GivenContents(r) == IF "contents" \in DOMAIN r.item THEN r.item.contents ELSE << >>
GivenCount(r) == IF "count" \in DOMAIN r.item THEN r.item.count ELSE <<1>>

\* C15: decode(encode(r)) has r's timestamp, price, item id, count (1 when r
\* gave none) and seller name; it has r's levels, trim and contents where r
\* populated them; and where r left them empty or absent it has the keys
\* enchants and contents all the same, with the empty structures: enchants
\* empty when r gave neither levels nor trim, otherwise empty levels or a
\* null trim beside the populated one, and contents the empty list.
C15_RoundTrip ==
    call.pc = "decompressed" =>
        LET r == call.tx
            d == call.decompressed
        IN  /\ d.unixMillisDateSold = r.unixMillisDateSold
            /\ d.price = r.price
            /\ d.item.id = r.item.id
            /\ d.item.count = GivenCount(r)
            /\ d.seller.name = r.seller.name
            /\ DOMAIN d.item = {"id", "count", "enchants", "contents"}
            /\ d.item.contents = GivenContents(r)
            /\ IF GivenLevels(r) = << >> /\ GivenTrim(r) = << >>
                  THEN d.item.enchants = << >>
                  ELSE /\ DOMAIN d.item.enchants = {"enchantments", "trim"}
                       /\ DOMAIN d.item.enchants.enchantments = {"levels"}
                       /\ d.item.enchants.enchantments.levels = GivenLevels(r)
                       /\ d.item.enchants.trim = GivenTrim(r)

\* A record with a count of 3, levels, a trim and contents went through
\* encode and decode.
C15_Witness ==
    /\ call.pc = "decompressed"
    /\ GivenCount(call.tx) = <<3>>
    /\ GivenLevels(call.tx) # << >>
    /\ GivenTrim(call.tx) # << >>
    /\ GivenContents(call.tx) # << >>
    /\ call.decompressed.item.enchants.trim = GivenTrim(call.tx)

\* C16: the policy completes on every list of compact records, those with
\* absent markers for ts, price, item id or seller among them: it never
\* raises.
C16_PolicyIsTotal ==
    call.pc = "returned" => ~call.raised

\* The canonical record d carries what the stored record c holds.
IsDecodeOf(d, c) ==
    /\ d.unixMillisDateSold = c.ts
    /\ d.price = c.p
    /\ d.item.id = c.i.id
    /\ d.item.count = c.i.c
    /\ ({"e", "t"} \cap DOMAIN c.i = {}) => d.item.enchants = << >>
    /\ d.item.contents = (IF "cont" \in DOMAIN c.i THEN c.i.cont ELSE << >>)
    /\ d.seller.name = c.s

\* C17: a ReadAll leaves the file as it found it (it creates none when there
\* is none); on no archive it returns the empty list, and on an archive of n
\* records it returns n records, the k-th carrying what the k-th stored
\* record holds.
C17_ReadAllDecodesInOrder ==
    served.op = "get" =>
        /\ file = served.before
        /\ served.status = 200
        /\ Len(served.data) = Len(served.before.recs)
        /\ \A k \in 1..Len(served.data) :
              IsDecodeOf(served.data[k], served.before.recs[k])

\* A ReadAll returned the two records of an archive, the older first.
C17_Witness ==
    /\ served.op = "get"
    /\ Len(served.before.recs) = 2
    /\ Len(served.data) = 2
    /\ Val(served.data[1].unixMillisDateSold) < Val(served.data[2].unixMillisDateSold)

\* The two steps as the specification words them, on a list sorted by ts:
\* keep the suffix of length MAX_RECORDS; drop what is older than the cutoff.
KeepSuffix(sorted) ==
    SubSeq(sorted, IF Len(sorted) > MAX_RECORDS THEN Len(sorted) - MAX_RECORDS + 1 ELSE 1,
           Len(sorted))
DropOld(sorted, t) == SelectSeq(sorted, LAMBDA r : ~TooOld(r, t))

\* The deduplicated, sorted list the two steps start from.
SortedDistinct(records) == SortByTs(UniqueRecords(records))

CapThenAge(records, t) == DropOld(KeepSuffix(SortedDistinct(records)), t)
AgeThenCap(records, t) == KeepSuffix(DropOld(SortedDistinct(records), t))

\* The input exceeds both limits: more than MAX_RECORDS distinct records, and
\* one past the retention window.
ExceedsBoth(records, t) ==
    /\ Cardinality(FirstSeen(records)) > MAX_RECORDS
    /\ \E r \in Range(records) : TooOld(r, t)

\* C18 as stated: there is an input exceeding both limits on which the
\* policy, called now or at a later time of the clock, capping before it
\* filters by age, leaves other records than filtering by age before capping
\* would.
C18_OrderIsObservable ==
    \E t \in now..MaxNow :
        \E records \in SeqsUpTo({c \in CompactSet : c.ts # None}, MaxCall) :
            /\ ExceedsBoth(records, t)
            /\ OptimizeDataStorage(records, t).out # AgeThenCap(records, t)

\* C18 amended: the policy caps before it filters by age, and the order
\* cannot be observed: on every input on which the policy returns, what it
\* returns is what capping then filtering leaves and also what filtering
\* then capping leaves.
C18_OrderIsNotObservable ==
    (call.pc = "returned" /\ ~call.raised) =>
        /\ call.out = CapThenAge(call.records, call.at)
        /\ call.out = AgeThenCap(call.records, call.at)

\* The policy returned on an input exceeding both limits, of which the
\* newest MAX_RECORDS held a record past the retention window: the cap
\* dropped a record and the age filter another.
C18_Witness ==
    /\ call.pc = "returned" /\ ~call.raised
    /\ ExceedsBoth(call.records, call.at)
    /\ \E r \in Range(KeepSuffix(SortedDistinct(call.records))) : TooOld(r, call.at)
    /\ call.out # << >>

\* The pairs <<j, tx>>: the j-th record of the archive found and a record of
\* the body whose encoding has the same identity key.
Collisions ==
    {pr \in (1..Len(served.before.recs)) \X Range(served.body.recs) :
        Identity(served.before.recs[pr[1]]) = Identity(CompressTransaction(pr[2]))}

\* C19: an AppendMerge passes to the policy the records of the archive
\* followed by the encoded new ones, and where a new record has the identity
\* key of an archive record, whatever the persisted archive keeps under that
\* key is the archive record as it was, never the new one.
C19_ArchiveRecordWinsCollision ==
    (served.op = "save" /\ Wrote) =>
        /\ SubSeq(served.records, 1, Len(served.before.recs)) = served.before.recs
        /\ Len(served.records) = Len(served.before.recs) + Len(served.body.recs)
        /\ \A pr \in Collisions :
              \A k \in 1..Len(file.recs) :
                  Identity(file.recs[k]) = Identity(served.before.recs[pr[1]])
                      => file.recs[k] = served.before.recs[pr[1]]

\* An AppendMerge brought a record with the key of an archive record and
\* another count, and the persisted archive holds the archive's record.
C19_Witness ==
    /\ served.op = "save" /\ Wrote
    /\ \E pr \in Collisions :
          /\ CompressTransaction(pr[2]).i.c # served.before.recs[pr[1]].i.c
          /\ served.before.recs[pr[1]] \in Range(file.recs)

\* What the AppendMerge just answered does when it is submitted again now.
SecondMerge == SaveHistoryResult(file, served.body, now)

\* C20: after an AppendMerge(x) that succeeded, the same AppendMerge(x)
\* submitted again at the same time of the clock succeeds and leaves the
\* archive as the first left it.
C20_ResubmittingChangesNothing ==
    (served.op = "save" /\ Wrote /\ now = served.at) =>
        /\ SecondMerge.status = 200
        /\ SecondMerge.file = file

=============================================================================
